---- MODULE Spec2Model ----
(***************************************************************************)
(* Model of scan_wsl_services.py: the WSL instance enumerator, the socket  *)
(* scanner (ss -tlnp parser), the service classifier, the external port    *)
(* allocator and the main pipeline that chains them.                       *)
(*                                                                         *)
(* Text that the program inspects character by character (a row of ss      *)
(* output, a local address, a port substring) is a sequence of one-        *)
(* character strings, so that split, rsplit, startswith, lower, int() and  *)
(* the substring tests are computed as Python computes them.  Text that    *)
(* the program only copies or compares as a whole (an instance name, a     *)
(* service label) is a TLA+ string.                                        *)
(***************************************************************************)
EXTENDS Integers, Sequences, FiniteSets, TLC

VARIABLES
    pc,               \* position of main(): "enumerate", "scan", "parse", "write", "done"
    instances,        \* main: instances (list of names returned by get_wsl_instances)
    all_instances,    \* main: all_instances (list of instance_info)
    ss_result,        \* scan_instance_ports: result of the ss invocation being parsed
    lister_out,       \* the Socket Lister results consumed so far, one per scanned instance
    port_assignments, \* main: port_assignments (insertion-ordered dict as a list of pairs)
    conflicts,        \* main: conflicts (dict external port -> list of claimants)
    config,           \* main: config written to wsl2-services-config.json
    cl_pc,            \* classifier harness: "input" or "classified"
    cl_port,          \* classifier harness: port argument
    cl_line,          \* classifier harness: line argument
    cl_result,        \* classifier harness: value returned by identify_service
    sc_pc,            \* scanner harness: "input" or "scanned"
    sc_in,            \* scanner harness: the result of the ss invocation
    sc_info           \* scanner harness: value returned by scan_instance_ports

vars == << pc, instances, all_instances, ss_result, lister_out, port_assignments, conflicts,
           config, cl_pc, cl_port, cl_line, cl_result, sc_pc, sc_in, sc_info >>

mainVars == << pc, instances, all_instances, ss_result, lister_out, port_assignments,
              conflicts, config >>
clVars == << cl_pc, cl_port, cl_line, cl_result >>
scVars == << sc_pc, sc_in, sc_info >>

None == "None"

(***************************************************************************)
(* Bounds of the model.                                                    *)
(***************************************************************************)
MaxInstances == 3
MaxScanRows == 3

(***************************************************************************)
(* Python str primitives on sequences of characters.                       *)
(***************************************************************************)
Whitespace == {" ", "\t"}

UpperAlpha == << "A","B","C","D","E","F","G","H","I","J","K","L","M",
                 "N","O","P","Q","R","S","T","U","V","W","X","Y","Z" >>
LowerAlpha == << "a","b","c","d","e","f","g","h","i","j","k","l","m",
                 "n","o","p","q","r","s","t","u","v","w","x","y","z" >>

LowerChar(c) ==
    IF \E k \in 1..26 : UpperAlpha[k] = c
    THEN LowerAlpha[CHOOSE k \in 1..26 : UpperAlpha[k] = c]
    ELSE c

\* str.lower()
Lower(s) == [k \in 1..Len(s) |-> LowerChar(s[k])]

\* sub in s
Contains(s, sub) ==
    \E k \in 0..(Len(s) - Len(sub)) : SubSeq(s, k + 1, k + Len(sub)) = sub

\* s.startswith(prefix)
StartsWith(s, prefix) ==
    /\ Len(prefix) <= Len(s)
    /\ SubSeq(s, 1, Len(prefix)) = prefix

\* s.strip()
RECURSIVE LStrip(_)
LStrip(s) ==
    IF s # << >> /\ Head(s) \in Whitespace THEN LStrip(Tail(s)) ELSE s

RECURSIVE RStrip(_)
RStrip(s) ==
    IF s # << >> /\ s[Len(s)] \in Whitespace THEN RStrip(SubSeq(s, 1, Len(s) - 1)) ELSE s

Strip(s) == RStrip(LStrip(s))

\* s.split(): the maximal runs of non-whitespace characters, in order
RECURSIVE SplitFrom(_, _, _, _)
SplitFrom(s, k, cur, acc) ==
    IF k > Len(s)
    THEN IF cur = << >> THEN acc ELSE Append(acc, cur)
    ELSE IF s[k] \in Whitespace
         THEN SplitFrom(s, k + 1, << >>, IF cur = << >> THEN acc ELSE Append(acc, cur))
         ELSE SplitFrom(s, k + 1, Append(cur, s[k]), acc)

Split(s) == SplitFrom(s, 1, << >>, << >>)

\* s.rsplit(':', 1) for s containing ':' : the text before and after the last colon
LastColon(s) == CHOOSE k \in 1..Len(s) : s[k] = ":" /\ \A j \in (k + 1)..Len(s) : s[j] # ":"

RSplitColon(s) ==
    << SubSeq(s, 1, LastColon(s) - 1), SubSeq(s, LastColon(s) + 1, Len(s)) >>

Digits == << "0","1","2","3","4","5","6","7","8","9" >>

IsDigit(c) == \E k \in 1..10 : Digits[k] = c

DigitVal(c) == (CHOOSE k \in 1..10 : Digits[k] = c) - 1

RECURSIVE DigitsVal(_, _)
DigitsVal(s, acc) ==
    IF s = << >> THEN acc ELSE DigitsVal(Tail(s), acc * 10 + DigitVal(Head(s)))

\* int(s): [ok |-> FALSE] stands for ValueError.  An optional sign followed by
\* one or more decimal digits is accepted (the inputs of the model hold no
\* underscores and no surrounding whitespace, which split() removes).
ParseInt(s) ==
    LET body == IF s # << >> /\ Head(s) \in {"+", "-"} THEN Tail(s) ELSE s
    IN  IF body = << >> \/ \E k \in 1..Len(body) : ~IsDigit(body[k])
        THEN [ok |-> FALSE, value |-> 0]
        ELSE [ok |-> TRUE,
              value |-> IF Head(s) = "-" THEN 0 - DigitsVal(body, 0) ELSE DigitsVal(body, 0)]

\* str(n) for a natural number n
RECURSIVE Dec(_)
Dec(n) ==
    IF n < 10 THEN << Digits[n + 1] >> ELSE Append(Dec(n \div 10), Digits[(n % 10) + 1])

(***************************************************************************)
(* identify_service(port, line)                                            *)
(***************************************************************************)
\* common_ports: the well-known port table
CommonPortNumbers ==
    {22, 80, 443, 3306, 5432, 6379, 6432, 631, 53, 3000, 8000, 8080, 5000, 3001,
     4000, 5678, 7080}

common_ports ==
    [p \in CommonPortNumbers |->
        CASE p = 22 -> "SSH"
          [] p = 80 -> "HTTP"
          [] p = 443 -> "HTTPS"
          [] p = 3306 -> "MySQL"
          [] p = 5432 -> "PostgreSQL"
          [] p = 6379 -> "Redis"
          [] p = 6432 -> "PgBouncer"
          [] p = 631 -> "CUPS"
          [] p = 53 -> "DNS"
          [] p = 3000 -> "Node.js Dev"
          [] p = 8000 -> "HTTP Dev"
          [] p = 8080 -> "HTTP Alt"
          [] p = 5000 -> "Flask Dev"
          [] p = 3001 -> "React Dev"
          [] p = 4000 -> "GraphQL"
          [] p = 5678 -> "Debug"
          [] p = 7080 -> "Proxy/LB"]

\* the process-name tokens searched in line.lower()
tok_sshd == << "s", "s", "h", "d" >>
tok_nginx == << "n", "g", "i", "n", "x" >>
tok_httpd == << "h", "t", "t", "p", "d" >>
tok_apache == << "a", "p", "a", "c", "h", "e" >>
tok_mysql == << "m", "y", "s", "q", "l" >>
tok_mariadb == << "m", "a", "r", "i", "a", "d", "b" >>
tok_postgres == << "p", "o", "s", "t", "g", "r", "e", "s" >>
tok_redis == << "r", "e", "d", "i", "s" >>
tok_node == << "n", "o", "d", "e" >>
tok_python == << "p", "y", "t", "h", "o", "n" >>
tok_code == << "c", "o", "d", "e" >>

\* the if/elif chain on process names; None when no branch is taken
ProcessLabel(line) ==
    LET l == Lower(line)
    IN  IF Contains(l, tok_sshd) THEN "SSH"
        ELSE IF Contains(l, tok_nginx) \/ Contains(l, tok_httpd) \/ Contains(l, tok_apache)
        THEN "HTTP"
        ELSE IF Contains(l, tok_mysql) \/ Contains(l, tok_mariadb) THEN "MySQL"
        ELSE IF Contains(l, tok_postgres) THEN "PostgreSQL"
        ELSE IF Contains(l, tok_redis) THEN "Redis"
        ELSE IF Contains(l, tok_node) THEN "Node.js"
        ELSE IF Contains(l, tok_python) THEN "Python"
        ELSE IF Contains(l, tok_code) THEN "VS Code"
        ELSE None

\* the port range guesses; None when no branch is taken
RangeLabel(port) ==
    IF 2000 <= port /\ port <= 2299 THEN "SSH Alt"
    ELSE IF 3000 <= port /\ port <= 3999 THEN "Dev Server"
    ELSE IF 8000 <= port /\ port <= 8999 THEN "HTTP Alt"
    ELSE IF 5000 <= port /\ port <= 5999 THEN "Dev/API"
    ELSE None

\* variant: the range guess is consulted before the process names
identify_service_RangeBeforeText(port, line) ==
    IF port \in DOMAIN common_ports THEN common_ports[port]
    ELSE IF RangeLabel(port) # None THEN RangeLabel(port)
    ELSE IF ProcessLabel(line) # None THEN ProcessLabel(line)
    ELSE "Unknown"

identify_service(port, line) ==
    IF port \in DOMAIN common_ports THEN common_ports[port]
    ELSE IF ProcessLabel(line) # None THEN ProcessLabel(line)
    ELSE IF RangeLabel(port) # None THEN RangeLabel(port)
    ELSE "Unknown"

(***************************************************************************)
(* scan_instance_ports(instance), given the result of the ss invocation:   *)
(* result.returncode, result.stdout (a list of lines) and result.stderr.   *)
(***************************************************************************)
w_LISTEN == << "L", "I", "S", "T", "E", "N" >>
pfx_127 == << "1", "2", "7", ".", "0", ".", "0" >>
pfx_v6lo == << ":", ":", "1" >>

\* the test of line 96 that drops a row
IsLoopbackSkip(addr) == StartsWith(addr, pfx_127) \/ StartsWith(addr, pfx_v6lo)

\* one iteration of the parsing loop: << >> when the row is skipped by a
\* continue, otherwise the one port_info appended to instance_info['ports']
ParseRow(line) ==
    IF ~Contains(line, w_LISTEN) THEN << >>
    ELSE LET parts == Split(line)
         IN  IF Len(parts) < 4 THEN << >>
             ELSE LET local_addr == parts[4]
                  IN  IF ~Contains(local_addr, << ":" >>) THEN << >>
                      ELSE LET addr == RSplitColon(local_addr)[1]
                               port_str == RSplitColon(local_addr)[2]
                               parsed == ParseInt(port_str)
                           IN  IF ~parsed.ok THEN << >>
                               ELSE IF IsLoopbackSkip(addr) THEN << >>
                               ELSE << [port |-> parsed.value,
                                        protocol |-> "tcp",
                                        address |-> addr,
                                        service_type |-> identify_service(parsed.value, line),
                                        raw_line |-> Strip(line)] >>

\* instance_info['ports'] when the parsing loop ends
RECURSIVE ParsedPorts(_)
ParsedPorts(lines) ==
    IF lines = << >> THEN << >> ELSE ParseRow(Head(lines)) \o ParsedPorts(Tail(lines))

\* variant: a later row replaces the record kept for its port
DedupInsert_LastWins(unique_ports, port_info) ==
    IF \E k \in 1..Len(unique_ports) : unique_ports[k].port = port_info.port
    THEN [k \in 1..Len(unique_ports) |->
             IF unique_ports[k].port = port_info.port THEN port_info ELSE unique_ports[k]]
    ELSE Append(unique_ports, port_info)

\* the first-wins insertion into unique_ports
DedupInsert(unique_ports, port_info) ==
    IF \E k \in 1..Len(unique_ports) : unique_ports[k].port = port_info.port
    THEN unique_ports
    ELSE Append(unique_ports, port_info)

\* list(unique_ports.values()): the dict keeps the order of first insertion
RECURSIVE DedupFrom(_, _)
DedupFrom(ports, unique_ports) ==
    IF ports = << >> THEN unique_ports
    ELSE DedupFrom(Tail(ports), DedupInsert(unique_ports, Head(ports)))

Dedup(ports) == DedupFrom(ports, << >>)

\* {port: list(set(services))}: the labels seen per port, as sets
Services(ports) ==
    [p \in {ports[k].port : k \in 1..Len(ports)} |->
        {ports[k].service_type : k \in {j \in 1..Len(ports) : ports[j].port = p}}]

\* result.stdout.strip().split('\n')[1:]
BodyLines(stdout) == IF stdout = << >> THEN << >> ELSE Tail(stdout)

\* 'error': None
NoError == << >>

\* the instance_info returned when returncode != 0
FailedScan(instance, result) ==
    [instance |-> instance,
     accessible |-> FALSE,
     ports |-> << >>,
     services |-> << >>,
     error |-> << "Failed to access (exit ", result.returncode, "): ", Strip(result.stderr) >>]

\* variant: the early return on a nonzero exit status is missing
scan_instance_ports_NoEarlyReturn(instance, result) ==
    LET parsed == ParsedPorts(BodyLines(result.stdout))
    IN  [instance |-> instance,
         accessible |-> TRUE,
         ports |-> Dedup(parsed),
         services |-> Services(parsed),
         error |-> IF result.returncode # 0 THEN FailedScan(instance, result).error
                   ELSE NoError]

scan_instance_ports(instance, result) ==
    IF result.returncode # 0 THEN FailedScan(instance, result)
    ELSE LET parsed == ParsedPorts(BodyLines(result.stdout))
         IN  [instance |-> instance,
              accessible |-> TRUE,
              ports |-> Dedup(parsed),
              services |-> Services(parsed),
              error |-> NoError]

(***************************************************************************)
(* The Socket Lister: what `ss -tlnp` inside an instance can print.        *)
(***************************************************************************)
w_ESTAB == << "E", "S", "T", "A", "B" >>
a_any4 == << "0", ".", "0", ".", "0", ".", "0" >>
a_any6 == << "[", ":", ":", "]" >>
a_star == << "*" >>
a_lo4 == << "1", "2", "7", ".", "0", ".", "0", ".", "1" >>
a_lo4host == << "1", "2", "7", ".", "0", ".", "1", ".", "1" >>
a_lo6 == << "[", ":", ":", "1", "]" >>
peer_any4 == << "0", ".", "0", ".", "0", ".", "0", ":", "*" >>
peer_any6 == << "[", ":", ":", "]", ":", "*" >>
p_sshd == << "u", "s", "e", "r", "s", ":", "(", "(", "\"", "s", "s", "h", "d", "\"", ",", "p", "i", "d", "=", "7", ",", "f", "d", "=", "3", ")", ")" >>
p_nginx == << "u", "s", "e", "r", "s", ":", "(", "(", "\"", "n", "g", "i", "n", "x", "\"", ",", "p", "i", "d", "=", "8", ",", "f", "d", "=", "6", ")", ")" >>
p_postgres == << "u", "s", "e", "r", "s", ":", "(", "(", "\"", "p", "o", "s", "t", "g", "r", "e", "s", "\"", ",", "p", "i", "d", "=", "9", ",", "f", "d", "=", "5", ")", ")" >>
p_dnsmasq == << "u", "s", "e", "r", "s", ":", "(", "(", "\"", "d", "n", "s", "m", "a", "s", "q", "\"", ",", "p", "i", "d", "=", "4", ",", "f", "d", "=", "5", ")", ")" >>
p_node == << "u", "s", "e", "r", "s", ":", "(", "(", "\"", "n", "o", "d", "e", "\"", ",", "p", "i", "d", "=", "5", ",", "f", "d", "=", "1", "9", ")", ")" >>
p_python == << "u", "s", "e", "r", "s", ":", "(", "(", "\"", "p", "y", "t", "h", "o", "n", "3", "\"", ",", "p", "i", "d", "=", "6", ",", "f", "d", "=", "3", ")", ")" >>
ss_header == << "S", "t", "a", "t", "e", " ", "R", "e", "c", "v", "-", "Q", " ", "S", "e", "n", "d", "-", "Q", " ", "L", "o", "c", "a", "l", " ", "A", "d", "d", "r", "e", "s", "s", ":", "P", "o", "r", "t", " ", "P", "e", "e", "r", " ", "A", "d", "d", "r", "e", "s", "s", ":", "P", "o", "r", "t", " ", "P", "r", "o", "c", "e", "s", "s" >>
err_text == << "n", "o", " ", "s", "u", "c", "h", " ", "d", "i", "s", "t", "r", "i", "b", "u", "t", "i", "o", "n", " " >>

SsRow(state, addr, port_str, peer, process) ==
    state \o << " ", "0", " ", " ", "1", "2", "8", " " >> \o addr \o << ":" >> \o port_str
          \o << " ", " " >> \o peer \o << " " >> \o process

\* rows of a listing
row_ssh == SsRow(w_LISTEN, a_any4, Dec(22), peer_any4, p_sshd)
row_ssh_v6 == SsRow(w_LISTEN, a_any6, Dec(22), peer_any6, p_sshd)
row_http == SsRow(w_LISTEN, a_any4, Dec(80), peer_any4, p_nginx)
row_pg_loopback == SsRow(w_LISTEN, a_lo4, Dec(5432), peer_any4, p_postgres)
row_dns_host == SsRow(w_LISTEN, a_lo4host, Dec(53), peer_any4, p_dnsmasq)
row_node == SsRow(w_LISTEN, a_star, Dec(3000), peer_any4, p_node)
row_9001 == SsRow(w_LISTEN, a_any4, Dec(9001), peer_any4, << >>)
row_python == SsRow(w_LISTEN, a_any6, Dec(7001), peer_any6, p_python)

ListerFailure == [returncode |-> 1, stdout |-> << >>, stderr |-> err_text]

ListerSuccess(rows) == [returncode |-> 0, stdout |-> << ss_header >> \o rows, stderr |-> << >>]

\* the listings an instance of a run can answer with
Listings ==
    { << >>,
      << row_ssh >>,
      << row_ssh, row_http, row_pg_loopback >>,
      << row_9001 >>,
      << row_python >>,
      << row_node >>,
      << row_9001, row_node >>,
      << row_node, row_python >>,
      << row_python, row_node, row_ssh_v6 >>,
      << row_dns_host, row_ssh, row_ssh_v6 >> }

ListerResults == { ListerFailure } \cup { ListerSuccess(rows) : rows \in Listings }

RECURSIVE SeqsUpTo(_, _)
SeqsUpTo(S, n) ==
    IF n = 0 THEN { << >> }
    ELSE LET shorter == SeqsUpTo(S, n - 1)
         IN  shorter \cup { Append(q, x) : q \in {r \in shorter : Len(r) = n - 1}, x \in S }

(***************************************************************************)
(* assign_external_ports(all_instances)                                    *)
(***************************************************************************)
\* the locals before the loop: the assignments dict, the used set, the
\* conflicts dict and the seven running counters
AllocStart ==
    [port_assignments |-> << >>,
     used_external_ports |-> {},
     conflicts |-> << >>,
     counters |-> [ssh_external |-> 2201,
                   http_external |-> 8081,
                   https_external |-> 8443,
                   mysql_external |-> 3307,
                   postgres_external |-> 5433,
                   redis_external |-> 6380,
                   dev_external |-> 9001]]

\* the branch of the if/elif chain taken for a record: the name of the counter
\* it uses, or None for the else branch
CounterFor(port_info) ==
    LET internal_port == port_info.port
        service_type == port_info.service_type
    IN  IF service_type = "SSH" \/ internal_port = 22 THEN "ssh_external"
        ELSE IF service_type \in {"HTTP", "HTTP Alt"} /\ internal_port = 80 THEN "http_external"
        ELSE IF service_type = "HTTPS" /\ internal_port = 443 THEN "https_external"
        ELSE IF service_type = "MySQL" /\ internal_port = 3306 THEN "mysql_external"
        ELSE IF service_type = "PostgreSQL" /\ internal_port = 5432 THEN "postgres_external"
        ELSE IF service_type = "Redis" /\ internal_port = 6379 THEN "redis_external"
        ELSE IF service_type \in {"Dev Server", "Node.js Dev", "Flask Dev"} THEN "dev_external"
        ELSE None

\* counter += 1
Advance(counters, name) == [counters EXCEPT ![name] = @ + 1]

\* variant: the probe steps by two
RECURSIVE FirstUnused_Stride2(_, _)
FirstUnused_Stride2(external_port, used) ==
    IF external_port \in used THEN FirstUnused_Stride2(external_port + 2, used)
    ELSE external_port

\* while external_port in used_external_ports: external_port += 1
RECURSIVE FirstUnused(_, _)
FirstUnused(external_port, used) ==
    IF external_port \in used THEN FirstUnused(external_port + 1, used) ELSE external_port

\* variant: the candidate is taken without the while loop
FallbackPort_NoProbe(internal_port, used) == 9000 + (internal_port % 1000)

\* the else branch: 9000 + (internal_port % 1000), then the while loop
FallbackPort(internal_port, used) == FirstUnused(9000 + (internal_port % 1000), used)

\* external_port after the if/elif chain
ExternalPort(st, port_info) ==
    IF CounterFor(port_info) # None
    THEN st.counters[CounterFor(port_info)]
    ELSE FallbackPort(port_info.port, st.used_external_ports)

\* variant: a counter is advanced only when its value was free
CountersAfter_HeldOnConflict(st, port_info) ==
    IF CounterFor(port_info) # None
       /\ st.counters[CounterFor(port_info)] \notin st.used_external_ports
    THEN Advance(st.counters, CounterFor(port_info))
    ELSE st.counters

\* the counters after the if/elif chain
CountersAfter(st, port_info) ==
    IF CounterFor(port_info) # None
    THEN Advance(st.counters, CounterFor(port_info))
    ELSE st.counters

Claimant(instance, port_info) ==
    [instance |-> instance,
     internal_port |-> port_info.port,
     service_type |-> port_info.service_type]

\* conflicts[external_port].append(...) on a defaultdict(list)
ConflictsAppend(c, external_port, claimant) ==
    [p \in DOMAIN c \cup {external_port} |->
        IF p = external_port
        THEN (IF p \in DOMAIN c THEN Append(c[p], claimant) ELSE << claimant >>)
        ELSE c[p]]

\* variant: the port is marked used before the check, so every mapping is recorded
ConflictsAfter_MarkedFirst(st, external_port, instance, port_info) ==
    ConflictsAppend(st.conflicts, external_port, Claimant(instance, port_info))

\* "Check for conflicts": the conflicts dict after the check
ConflictsAfter(st, external_port, instance, port_info) ==
    IF external_port \in st.used_external_ports
    THEN ConflictsAppend(st.conflicts, external_port, Claimant(instance, port_info))
    ELSE st.conflicts

\* "Check for conflicts": the used set after the check
UsedAfter(st, external_port) ==
    IF external_port \in st.used_external_ports
    THEN st.used_external_ports
    ELSE st.used_external_ports \cup {external_port}

Mapping(instance, port_info, external_port) ==
    [name |-> << instance, " ", port_info.service_type >>,
     distro |-> instance,
     protocol |-> "tcp",
     port |-> external_port,
     internal_port |-> port_info.port,
     firewall |-> "local",
     listen_address |-> "0.0.0.0",
     service_type |-> port_info.service_type,
     original_address |-> port_info.address]

\* d[key] = value on an insertion-ordered dict kept as a list of [key, value]
DictSet(d, key, value) ==
    IF \E k \in 1..Len(d) : d[k].key = key
    THEN [k \in 1..Len(d) |-> IF d[k].key = key THEN [key |-> key, value |-> value] ELSE d[k]]
    ELSE Append(d, [key |-> key, value |-> value])

DictGet(d, key) == d[CHOOSE k \in 1..Len(d) : d[k].key = key].value

DictKeys(d) == [k \in 1..Len(d) |-> d[k].key]

\* port_assignments[instance].append(mapping)
EmitMapping(assignments, instance, mapping) ==
    DictSet(assignments, instance, Append(DictGet(assignments, instance), mapping))

\* the body of the inner loop for one port_info
AssignPort(st, instance, port_info) ==
    LET external_port == ExternalPort(st, port_info)
    IN  [port_assignments |->
             EmitMapping(st.port_assignments, instance,
                         Mapping(instance, port_info, external_port)),
         used_external_ports |-> UsedAfter(st, external_port),
         conflicts |-> ConflictsAfter(st, external_port, instance, port_info),
         counters |-> CountersAfter(st, port_info)]

RECURSIVE AssignPorts(_, _, _)
AssignPorts(st, instance, ports) ==
    IF ports = << >> THEN st
    ELSE AssignPorts(AssignPort(st, instance, Head(ports)), instance, Tail(ports))

\* variant: instances without ports are skipped too
IsSkipped_OrNoPorts(instance_info) ==
    ~instance_info.accessible \/ instance_info.ports = << >>

\* variant: the accessibility test is missing
IsSkipped_Never(instance_info) == FALSE

\* if not instance_info['accessible']: continue
IsSkipped(instance_info) == ~instance_info.accessible

\* the body of the outer loop for one instance_info
AssignInstance(st, instance_info) ==
    IF IsSkipped(instance_info) THEN st
    ELSE AssignPorts(
             [st EXCEPT !.port_assignments = DictSet(@, instance_info.instance, << >>)],
             instance_info.instance, instance_info.ports)

RECURSIVE AssignAll(_, _)
AssignAll(st, infos) ==
    IF infos = << >> THEN st ELSE AssignAll(AssignInstance(st, Head(infos)), Tail(infos))

\* return port_assignments, dict(conflicts)
assign_external_ports(infos) ==
    LET st == AssignAll(AllocStart, infos)
    IN  << st.port_assignments, st.conflicts >>

(***************************************************************************)
(* get_wsl_instances(), given the result of `wsl --list --verbose`:        *)
(* result.returncode and the decoded output as a list of lines, each line  *)
(* given as line.split().                                                  *)
(***************************************************************************)
\* one iteration of the loop over lines: the names appended to instances
ParseWslLine(parts) ==
    IF Len(parts) >= 3
    THEN LET name == IF parts[1] # "*" THEN parts[1] ELSE parts[2]
         IN  IF name # "" /\ name # "NAME" THEN << name >> ELSE << >>
    ELSE << >>

RECURSIVE ParseWslLines(_)
ParseWslLines(lines) ==
    IF lines = << >> THEN << >> ELSE ParseWslLine(Head(lines)) \o ParseWslLines(Tail(lines))

get_wsl_instances(result) ==
    IF result.returncode # 0 THEN << >>
    ELSE ParseWslLines(IF result.lines = << >> THEN << >> ELSE Tail(result.lines))

(***************************************************************************)
(* The Instance Enumerator: what `wsl --list --verbose` can print.  The    *)
(* distributions registered on a host have pairwise distinct names.        *)
(***************************************************************************)
InstanceNames == << "Ubuntu", "Debian", "kali-linux", "Alpine", "openSUSE" >>

\* the registered distributions, in the order the listing prints them
Registered == { SubSeq(InstanceNames, 1, n) : n \in 0..MaxInstances }

wsl_header == << "NAME", "STATE", "VERSION" >>

\* the listing of the distributions q, the d-th being the default one
WslListing(q, d) ==
    << wsl_header >>
        \o [k \in 1..Len(q) |->
              IF k = d THEN << "*", q[k], "Running", "2" >> ELSE << q[k], "Stopped", "2" >>]
        \o << << >> >>

WslResults ==
    { [returncode |-> 1, lines |-> << >>] }
        \cup { [returncode |-> 0, lines |-> WslListing(q, d)] :
                 q \in Registered, d \in 0..MaxInstances }

(***************************************************************************)
(* main(): the configuration document                                      *)
(***************************************************************************)
\* port_config for one mapping; internal_port is deleted when equal to port
PortConfig(mapping) ==
    IF mapping.port = mapping.internal_port
    THEN [port |-> mapping.port,
          firewall |-> mapping.firewall,
          comment |-> << mapping.service_type, " service (same port internally)" >>]
    ELSE [port |-> mapping.port,
          internal_port |-> mapping.internal_port,
          firewall |-> mapping.firewall,
          comment |-> << mapping.service_type, " service (external ", mapping.port,
                         " -> internal ", mapping.internal_port, ")" >>]

InstanceConfig(entry) ==
    [name |-> entry.key,
     comment |-> << "Auto-discovered WSL2 instance with ", Len(entry.value), " services" >>,
     ports |-> [k \in 1..Len(entry.value) |-> PortConfig(entry.value[k])]]

BuildConfig(assignments) ==
    [check_interval_seconds |-> 5,
     instances |-> [k \in 1..Len(assignments) |-> InstanceConfig(assignments[k])]]

(***************************************************************************)
(* main()                                                                  *)
(***************************************************************************)
MainInit ==
    /\ pc = "enumerate"
    /\ instances = << >>
    /\ all_instances = << >>
    /\ ss_result = << >>
    /\ lister_out = << >>
    /\ port_assignments = << >>
    /\ conflicts = << >>
    /\ config = << >>

ClassifierIdle ==
    /\ cl_pc = "idle"
    /\ cl_port = 0
    /\ cl_line = << >>
    /\ cl_result = ""

ScannerIdle ==
    /\ sc_pc = "idle"
    /\ sc_in = << >>
    /\ sc_info = << >>

Init == MainInit /\ ClassifierIdle /\ ScannerIdle

\* instances = get_wsl_instances()
GetInstances ==
    /\ pc = "enumerate"
    /\ \E result \in WslResults : instances' = get_wsl_instances(result)
    /\ pc' = "scan"
    /\ UNCHANGED << all_instances, ss_result, lister_out, port_assignments, conflicts, config >>
    /\ UNCHANGED << clVars, scVars >>

\* `for instance in instances`: scan_instance_ports is entered for the next
\* instance and the ss invocation returns
InvokeLister ==
    /\ pc = "scan"
    /\ Len(all_instances) < Len(instances)
    /\ ss_result' \in ListerResults
    /\ pc' = "parse"
    /\ UNCHANGED << instances, all_instances, lister_out, port_assignments, conflicts, config >>
    /\ UNCHANGED << clVars, scVars >>

\* scan_instance_ports builds instance_info from the ss result and returns;
\* all_instances.append(instance_info)
ScanInstance ==
    /\ pc = "parse"
    /\ all_instances' =
           Append(all_instances,
                  scan_instance_ports(instances[Len(all_instances) + 1], ss_result))
    /\ lister_out' = Append(lister_out, ss_result)
    /\ ss_result' = << >>
    /\ pc' = "scan"
    /\ UNCHANGED << instances, port_assignments, conflicts, config >>
    /\ UNCHANGED << clVars, scVars >>

\* port_assignments, conflicts = assign_external_ports(all_instances)
Allocate ==
    /\ pc = "scan"
    /\ Len(all_instances) = Len(instances)
    /\ LET assigned == assign_external_ports(all_instances)
       IN  /\ port_assignments' = assigned[1]
           /\ conflicts' = assigned[2]
    /\ pc' = "write"
    /\ UNCHANGED << instances, all_instances, ss_result, lister_out, config >>
    /\ UNCHANGED << clVars, scVars >>

\* build config and json.dump it
WriteConfig ==
    /\ pc = "write"
    /\ config' = BuildConfig(port_assignments)
    /\ pc' = "done"
    /\ UNCHANGED << instances, all_instances, ss_result, lister_out, port_assignments,
                    conflicts >>
    /\ UNCHANGED << clVars, scVars >>

Next == GetInstances \/ InvokeLister \/ ScanInstance \/ Allocate \/ WriteConfig

Spec == Init /\ [][Next]_vars

\* main() is sequential and every call it makes returns: a step that is possible
\* is eventually taken.  This is weak fairness of each of the five actions.  For
\* ScanInstance and Allocate it is written through the enabling condition: the
\* action is enabled exactly when its guard holds and each of its steps makes
\* the guard false, so weak fairness says the guard is false infinitely often.
FairSpec ==
    /\ Spec
    /\ WF_vars(GetInstances)
    /\ WF_vars(InvokeLister)
    /\ []<>~(pc = "parse")
    /\ []<>~(pc = "scan" /\ Len(all_instances) = Len(instances))
    /\ WF_vars(WriteConfig)

(***************************************************************************)
(* identify_service as a function of its arguments: every port of the      *)
(* table, the ends of every range and ports outside all of them, against   *)
(* rows naming each kind of process.                                       *)
(***************************************************************************)
ClassifyPorts ==
    CommonPortNumbers \cup
    {21, 1999, 2000, 2222, 2299, 2300, 2999, 3002, 3500, 3999, 4001, 4999, 5001, 5999,
     6000, 7999, 8001, 8443, 8999, 9000, 9500, 65535}

ClassifyProcesses ==
    { << >>,
      p_sshd, p_nginx, p_postgres, p_dnsmasq, p_node, p_python,
      << "u", "s", "e", "r", "s", ":", "(", "(", "\"", "N", "G", "I", "N", "X", "\"", ",", "p", "i", "d", "=", "8", ",", "f", "d", "=", "6", ")", ")" >>,
      << "u", "s", "e", "r", "s", ":", "(", "(", "\"", "h", "t", "t", "p", "d", "\"", ",", "p", "i", "d", "=", "8", ",", "f", "d", "=", "4", ")", ")" >>,
      << "u", "s", "e", "r", "s", ":", "(", "(", "\"", "a", "p", "a", "c", "h", "e", "2", "\"", ",", "p", "i", "d", "=", "8", ",", "f", "d", "=", "4", ")", ")" >>,
      << "u", "s", "e", "r", "s", ":", "(", "(", "\"", "m", "y", "s", "q", "l", "d", "\"", ",", "p", "i", "d", "=", "3", ",", "f", "d", "=", "2", "1", ")", ")" >>,
      << "u", "s", "e", "r", "s", ":", "(", "(", "\"", "m", "a", "r", "i", "a", "d", "b", "d", "\"", ",", "p", "i", "d", "=", "3", ",", "f", "d", "=", "2", "1", ")", ")" >>,
      << "u", "s", "e", "r", "s", ":", "(", "(", "\"", "r", "e", "d", "i", "s", "-", "s", "e", "r", "v", "e", "r", "\"", ",", "p", "i", "d", "=", "2", ",", "f", "d", "=", "6", ")", ")" >>,
      << "u", "s", "e", "r", "s", ":", "(", "(", "\"", "c", "o", "d", "e", "-", "d", "5", "a", "3", "\"", ",", "p", "i", "d", "=", "2", ",", "f", "d", "=", "9", ")", ")" >>,
      << "u", "s", "e", "r", "s", ":", "(", "(", "\"", "n", "o", "d", "e", "\"", ",", "p", "i", "d", "=", "5", ",", "f", "d", "=", "1", "9", ")", ",", "(", "\"", "c", "o", "d", "e", "\"", ",", "p", "i", "d", "=", "6", ",", "f", "d", "=", "1", "9", ")", ")" >> }

ClassifyLines(port) ==
    { << >> } \cup
    { SsRow(w_LISTEN, a_any4, Dec(port), peer_any4, process) : process \in ClassifyProcesses }

MainIdle ==
    /\ pc = "idle"
    /\ instances = << >>
    /\ all_instances = << >>
    /\ ss_result = << >>
    /\ lister_out = << >>
    /\ port_assignments = << >>
    /\ conflicts = << >>
    /\ config = << >>

InitClassify ==
    /\ MainIdle
    /\ ScannerIdle
    /\ cl_pc = "input"
    /\ cl_port \in ClassifyPorts
    /\ cl_line \in ClassifyLines(cl_port)
    /\ cl_result = ""

\* service_type = identify_service(port, line)
Classify ==
    /\ cl_pc = "input"
    /\ cl_result' = identify_service(cl_port, cl_line)
    /\ cl_pc' = "classified"
    /\ UNCHANGED << cl_port, cl_line, mainVars, scVars >>

NextClassify == Classify

SpecClassify == InitClassify /\ [][NextClassify]_vars

(***************************************************************************)
(* scan_instance_ports as a function of the ss result: the rows of a       *)
(* healthy listing together with rows of every kind the parser rejects.    *)
(***************************************************************************)
ScanRows ==
    { row_ssh,
      row_ssh_v6,
      row_pg_loopback,
      SsRow(w_LISTEN, a_star, Dec(5432), << "*", ":", "*" >>, p_postgres),
      row_dns_host,
      SsRow(w_LISTEN, << "1", "2", "7", ".", "0", ".", "0", ".", "5", "3", "%", "l", "o" >>, Dec(53), peer_any4, << >>),
      SsRow(w_LISTEN, a_lo6, Dec(631), peer_any6, << >>),
      SsRow(w_LISTEN, << ":", ":", "1" >>, Dec(631), << ":", ":", ":", "*" >>, << >>),
      SsRow(w_ESTAB, a_any4, Dec(22), << "1", "0", ".", "0", ".", "0", ".", "7", ":", "5", "1", "0", "3", "4" >>, p_sshd),
      << "L", "I", "S", "T", "E", "N", " ", "0", " ", "1", "2", "8" >>,
      << "L", "I", "S", "T", "E", "N", " ", "0", " ", "1", "2", "8", " ", "n", "o", "c", "o", "l", "o", "n", " ", "0", ".", "0", ".", "0", ".", "0", ":", "*" >>,
      SsRow(w_LISTEN, a_any4, << "*" >>, peer_any4, << >>) }

ScanInputs ==
    { ListerFailure, [returncode |-> 0, stdout |-> << >>, stderr |-> << >>] }
        \cup { ListerSuccess(rows) : rows \in SeqsUpTo(ScanRows, MaxScanRows) }

InitScan ==
    /\ MainIdle
    /\ ClassifierIdle
    /\ sc_pc = "input"
    /\ sc_in \in ScanInputs
    /\ sc_info = << >>

\* instance_info = scan_instance_ports(instance)
Scan ==
    /\ sc_pc = "input"
    /\ sc_info' = scan_instance_ports("Ubuntu", sc_in)
    /\ sc_pc' = "scanned"
    /\ UNCHANGED << sc_in, mainVars, clVars >>

NextScan == Scan

SpecScan == InitScan /\ [][NextScan]_vars

(***************************************************************************)
(* Vocabulary of the properties.                                           *)
(***************************************************************************)
\* the allocator has returned
Allocated == pc \in {"write", "done"}

IsAccessible(instance_info) == instance_info.accessible

DistinctIds ==
    \A a, b \in 1..Len(all_instances) :
        a # b => all_instances[a].instance # all_instances[b].instance

\* the mappings of a plan in the order they were emitted
RECURSIVE Flat(_)
Flat(assignments) ==
    IF assignments = << >> THEN << >> ELSE Head(assignments).value \o Flat(Tail(assignments))

Emitted == Flat(port_assignments)

\* the ports of the mappings emitted before the k-th one
EarlierPorts(k) == { Emitted[j].port : j \in 1..(k - 1) }

\* the mapping is listed in conflicts under its own external port
IsClaimant(m) ==
    /\ m.port \in DOMAIN conflicts
    /\ \E c \in 1..Len(conflicts[m.port]) :
          conflicts[m.port][c] = [instance |-> m.distro,
                                  internal_port |-> m.internal_port,
                                  service_type |-> m.service_type]

\* the counter the record behind a mapping was matched to, None for the fallback rule
CounterOfMapping(m) == CounterFor([port |-> m.internal_port, service_type |-> m.service_type])

Candidate(internal_port) == 9000 + (internal_port % 1000)

\* the mappings emitted for an instance, << >> when it has no group
GroupOf(instance) ==
    IF \E k \in 1..Len(port_assignments) : port_assignments[k].key = instance
    THEN DictGet(port_assignments, instance)
    ELSE << >>

\* the mappings of an instance for one of its internal ports
MappingsFor(instance, internal_port) ==
    { m \in { GroupOf(instance)[k] : k \in 1..Len(GroupOf(instance)) } :
        m.internal_port = internal_port }

\* C1: after allocation over scan results with pairwise distinct instance ids, a
\* mapping is listed as a claimant under its external port exactly when an
\* earlier emitted mapping has the same external port; so mappings that are not
\* claimants have pairwise distinct external ports, and the first mapping at an
\* external port is never a claimant.
C1_ClaimantIffEarlierSamePort ==
    (Allocated /\ DistinctIds) =>
        /\ \A k \in 1..Len(Emitted) :
              IsClaimant(Emitted[k]) <=> (Emitted[k].port \in EarlierPorts(k))
        /\ \A j, k \in 1..Len(Emitted) :
              (j < k /\ ~IsClaimant(Emitted[j]) /\ ~IsClaimant(Emitted[k]))
                  => Emitted[j].port # Emitted[k].port
        /\ \A k \in 1..Len(Emitted) :
              (Emitted[k].port \notin EarlierPorts(k)) => ~IsClaimant(Emitted[k])

C1_Witness ==
    /\ pc = "done"
    /\ DistinctIds
    /\ \E j, k \in 1..Len(Emitted) :
          /\ j < k
          /\ Emitted[j].port = Emitted[k].port
          /\ Emitted[j].distro # Emitted[k].distro
          /\ IsClaimant(Emitted[k])
          /\ ~IsClaimant(Emitted[j])

\* two accessible instances, the a-th before the b-th, holding the records ra
\* and rb that both fall to the fallback rule with the same candidate
FallbackPair(a, b, ra, rb) ==
    /\ a < b
    /\ all_instances[a].accessible
    /\ all_instances[b].accessible
    /\ CounterFor(ra) = None
    /\ CounterFor(rb) = None
    /\ Candidate(ra.port) = Candidate(rb.port)

PortsOf(a) == { all_instances[a].ports[k] : k \in 1..Len(all_instances[a].ports) }

\* C2 as stated: two instances with fallback records of the same candidate give
\* exactly one conflict entry for that port, with the second instance's record
\* as its only claimant, and both records are mapped.
C2_FallbackPairConflicts ==
    Allocated =>
        \A a, b \in 1..Len(all_instances) :
            \A ra \in PortsOf(a), rb \in PortsOf(b) :
                FallbackPair(a, b, ra, rb) =>
                    /\ Candidate(ra.port) \in DOMAIN conflicts
                    /\ conflicts[Candidate(ra.port)]
                           = << Claimant(all_instances[b].instance, rb) >>
                    /\ MappingsFor(all_instances[a].instance, ra.port) # {}
                    /\ MappingsFor(all_instances[b].instance, rb.port) # {}

\* C2 amended: two instances with fallback records of the same candidate both
\* receive a mapping, the first at or above the candidate and the second at a
\* strictly higher external port, and neither record is a conflict claimant.
C2_FallbackPairAvoidsConflict ==
    Allocated =>
        \A a, b \in 1..Len(all_instances) :
            \A ra \in PortsOf(a), rb \in PortsOf(b) :
                FallbackPair(a, b, ra, rb) =>
                    /\ Cardinality(MappingsFor(all_instances[a].instance, ra.port)) = 1
                    /\ Cardinality(MappingsFor(all_instances[b].instance, rb.port)) = 1
                    /\ \A ma \in MappingsFor(all_instances[a].instance, ra.port),
                          mb \in MappingsFor(all_instances[b].instance, rb.port) :
                          /\ Candidate(ra.port) <= ma.port
                          /\ ma.port < mb.port
                          /\ ~IsClaimant(ma)
                          /\ ~IsClaimant(mb)

C2_Witness ==
    /\ pc = "done"
    /\ \E a, b \in 1..Len(all_instances) :
          \E ra \in PortsOf(a), rb \in PortsOf(b) :
              /\ FallbackPair(a, b, ra, rb)
              /\ \E ma \in MappingsFor(all_instances[a].instance, ra.port),
                    mb \in MappingsFor(all_instances[b].instance, rb.port) :
                    ma.port = Candidate(ra.port) /\ mb.port = ma.port + 1

\* C3: after allocation over scan results with pairwise distinct instance ids, the
\* plan has exactly one group per accessible instance, in enumeration order
\* (instances without ports included), and the internal ports of a group are
\* the scanned ports of its instance, one mapping per record, in scan order.
C3_OneMappingPerRecordInOrder ==
    (Allocated /\ DistinctIds) =>
        LET acc == SelectSeq(all_instances, IsAccessible)
        IN  /\ DictKeys(port_assignments) = [k \in 1..Len(acc) |-> acc[k].instance]
            /\ \A k \in 1..Len(acc) :
                  [j \in 1..Len(port_assignments[k].value) |->
                      port_assignments[k].value[j].internal_port]
                  = [j \in 1..Len(acc[k].ports) |-> acc[k].ports[j].port]

C3_Witness ==
    /\ pc = "done"
    /\ DistinctIds
    /\ Len(port_assignments) = 2
    /\ Len(port_assignments[1].value) = 0
    /\ Len(port_assignments[2].value) = 2
    /\ IsClaimant(port_assignments[2].value[2])

\* the bases the counters are claimed to start at
ClaimedBase ==
    [ssh_external |-> 2201,
     http_external |-> 8081,
     https_external |-> 8443,
     mysql_external |-> 3307,
     postgres_external |-> 5433,
     redis_external |-> 6380,
     dev_external |-> 9001]

\* how many mappings before the k-th were matched to the counter name
UsesBefore(name, k) == Cardinality({ j \in 1..(k - 1) : CounterOfMapping(Emitted[j]) = name })

C5_InaccessibleContributesNothing ==
    Allocated =>
        /\ << port_assignments, conflicts >>
               = assign_external_ports(SelectSeq(all_instances, IsAccessible))
        /\ \A a \in 1..Len(all_instances) :
              ~all_instances[a].accessible =>
                  /\ \A k \in 1..Len(port_assignments) :
                        port_assignments[k].key # all_instances[a].instance
                  /\ \A p \in DOMAIN conflicts :
                        \A c \in 1..Len(conflicts[p]) :
                            conflicts[p][c].instance # all_instances[a].instance

C5_Witness ==
    /\ pc = "done"
    /\ Len(all_instances) = 2
    /\ ~all_instances[1].accessible
    /\ all_instances[2].accessible
    /\ Len(Emitted) = 2
    /\ \E k \in 1..Len(Emitted) : IsClaimant(Emitted[k])

\* what holds of the scan results at every point of a run
ScanResultsSound ==
    /\ Len(all_instances) = Len(lister_out)
    /\ Len(all_instances) <= Len(instances)
    /\ \A k \in 1..Len(all_instances) :
          /\ all_instances[k].instance = instances[k]
          /\ lister_out[k].returncode # 0 =>
                /\ ~all_instances[k].accessible
                /\ Len(all_instances[k].error) > 0
                /\ all_instances[k].ports = << >>
          /\ lister_out[k].returncode = 0 => all_instances[k].accessible
    /\ Allocated => Len(all_instances) = Len(instances)
    /\ pc = "done" =>
          /\ config.check_interval_seconds = 5
          /\ Len(config.instances) = Len(SelectSeq(all_instances, IsAccessible))
          /\ instances = << >> => config.instances = << >>

\* a step leaves the results gathered so far in place and adds at most one
ResultsAppendOnly ==
    /\ Len(all_instances') \in {Len(all_instances), Len(all_instances) + 1}
    /\ \A k \in 1..Len(all_instances) : all_instances'[k] = all_instances[k]

\* C6: in a full run a failing scan is recorded as accessible = false with an
\* error detail and no ports, every enumerated instance is scanned once in
\* enumeration order, the results only grow by appending, and the run always
\* reaches the end with a configuration written (an empty one when the
\* enumeration gives no instance).
C6_RunSurvivesFailuresAndCompletes ==
    /\ []ScanResultsSound
    /\ [][ResultsAppendOnly]_vars
    /\ <>(pc = "done")

C6_Witness ==
    /\ pc = "done"
    /\ Len(all_instances) = 2
    /\ lister_out[1].returncode # 0
    /\ ~all_instances[1].accessible
    /\ all_instances[2].accessible
    /\ Len(config.instances) = 1
    /\ Len(config.instances[1].ports) = 2

\* loopback as the data model defines it: 127.0.0.0/8 or ::1
w_v6lo == << ":", ":", "1" >>
w_v6lo_bracketed == << "[", ":", ":", "1", "]" >>
pfx_127net == << "1", "2", "7", "." >>

IsLoopbackAddress(addr) ==
    StartsWith(addr, pfx_127net) \/ addr = w_v6lo \/ addr = w_v6lo_bracketed

\* C7: every stored port record has protocol tcp and a bound address that is
\* not loopback (127.0.0.0/8 or ::1).
C7_StoredRecordsAreNonLoopbackTcp ==
    sc_pc = "scanned" =>
        \A k \in 1..Len(sc_info.ports) :
            /\ sc_info.ports[k].protocol = "tcp"
            /\ ~IsLoopbackAddress(sc_info.ports[k].address)

\* the process tokens with the label each stands for
TokenLabels ==
    << << tok_sshd, "SSH" >>, << tok_nginx, "HTTP" >>, << tok_httpd, "HTTP" >>,
       << tok_apache, "HTTP" >>, << tok_mysql, "MySQL" >>, << tok_mariadb, "MySQL" >>,
       << tok_postgres, "PostgreSQL" >>, << tok_redis, "Redis" >>, << tok_node, "Node.js" >>,
       << tok_python, "Python" >>, << tok_code, "VS Code" >> >>

\* the labels of the tokens found in the text, letter case ignored
TokenHits(line) ==
    { TokenLabels[k][2] : k \in { j \in 1..Len(TokenLabels) :
                                     Contains(Lower(line), TokenLabels[j][1]) } }

\* C8: the classifier answers by strict layers: the table label of a well-known
\* port whatever the text; otherwise the label of a process token found in
\* the text (case-insensitively) whatever the port; otherwise the range label
\* (2000-2299 SSH Alt, 3000-3999 Dev Server, 8000-8999 HTTP Alt, 5000-5999
\* Dev/API); otherwise Unknown.
C8_ClassifyLayeredPrecedence ==
    cl_pc = "classified" =>
        IF cl_port \in CommonPortNumbers THEN cl_result = common_ports[cl_port]
        ELSE IF TokenHits(cl_line) # {} THEN cl_result \in TokenHits(cl_line)
        ELSE IF cl_port \in 2000..2299 THEN cl_result = "SSH Alt"
        ELSE IF cl_port \in 3000..3999 THEN cl_result = "Dev Server"
        ELSE IF cl_port \in 8000..8999 THEN cl_result = "HTTP Alt"
        ELSE IF cl_port \in 5000..5999 THEN cl_result = "Dev/API"
        ELSE cl_result = "Unknown"

C8_Witness ==
    /\ cl_pc = "classified"
    /\ cl_port = 22
    /\ Contains(Lower(cl_line), tok_nginx)
    /\ cl_result = "SSH"

\* the retained rows of the scanned listing, in order
Retained == ParsedPorts(BodyLines(sc_in.stdout))

\* the position of the first of the rows with the given port
FirstRow(rows, port) ==
    CHOOSE k \in 1..Len(rows) :
        /\ rows[k].port = port
        /\ \A j \in 1..(k - 1) : rows[j].port # port

\* C9: the ports of a scan result have pairwise distinct port numbers; each is
\* the record of the first retained row with its port number, every retained
\* port number survives, and the survivors keep the order of first occurrence.
C9_DedupFirstRowWins ==
    (sc_pc = "scanned" /\ sc_info.accessible) =>
        LET rows == Retained
            out == sc_info.ports
        IN  /\ \A a, b \in 1..Len(out) : a # b => out[a].port # out[b].port
            /\ { out[a].port : a \in 1..Len(out) } = { rows[k].port : k \in 1..Len(rows) }
            /\ \A a \in 1..Len(out) : out[a] = rows[FirstRow(rows, out[a].port)]
            /\ \A a, b \in 1..Len(out) :
                  a < b => FirstRow(rows, out[a].port) < FirstRow(rows, out[b].port)

C9_Witness ==
    /\ sc_pc = "scanned"
    /\ LET rows == Retained
       IN  /\ Len(rows) = 3
           /\ rows[1].port = rows[3].port
           /\ rows[1].address # rows[3].address
           /\ rows[2].port # rows[1].port
           /\ sc_info.ports = << rows[1], rows[2] >>

\* C10: a mapping made by the fallback rule has the smallest external port at or
\* above 9000 + (internalPort mod 1000) that no earlier mapping holds (the
\* used set at that moment is the set of ports of the earlier mappings) and
\* is never a claimant; a claimant is always counter-assigned, at a counter
\* value an earlier mapping already holds, and it has advanced its counter:
\* the next record of that counter receives the next value.
C10_FallbackNeverClaimant ==
    Allocated =>
        \A k \in 1..Len(Emitted) :
            /\ CounterOfMapping(Emitted[k]) = None =>
                  /\ Emitted[k].port >= Candidate(Emitted[k].internal_port)
                  /\ Emitted[k].port \notin EarlierPorts(k)
                  /\ \A q \in Candidate(Emitted[k].internal_port)..(Emitted[k].port - 1) :
                        q \in EarlierPorts(k)
                  /\ ~IsClaimant(Emitted[k])
            /\ IsClaimant(Emitted[k]) =>
                  /\ CounterOfMapping(Emitted[k]) # None
                  /\ Emitted[k].port \in EarlierPorts(k)
                  /\ \A j \in (k + 1)..Len(Emitted) :
                        (/\ CounterOfMapping(Emitted[j]) = CounterOfMapping(Emitted[k])
                         /\ \A i \in (k + 1)..(j - 1) :
                               CounterOfMapping(Emitted[i]) # CounterOfMapping(Emitted[k]))
                            => Emitted[j].port = Emitted[k].port + 1

C10_Witness ==
    /\ pc = "done"
    /\ \E i, j, k \in 1..Len(Emitted) :
          /\ i < j /\ j < k
          /\ CounterOfMapping(Emitted[i]) = None
          /\ Emitted[i].port = 9001
          /\ CounterOfMapping(Emitted[j]) = "dev_external"
          /\ Emitted[j].port = 9001
          /\ IsClaimant(Emitted[j])
          /\ CounterOfMapping(Emitted[k]) = None
          /\ Candidate(Emitted[k].internal_port) = 9001
          /\ Emitted[k].port = 9002

====
